---- MODULE Spec2Model ----
(***************************************************************************)
(* Model of src/src/generate_heightmap.py: main() reads a terrain request, *)
(* builds a samples x samples destination grid in local metres, resamples  *)
(* band 1 of a source raster into it (nearest neighbour), writes the grid  *)
(* as little-endian int16 bytes and then writes a metadata sidecar.        *)
(*                                                                         *)
(* Numbers.  size_m, center_e, center_n are floats in the program.  Every  *)
(* coordinate the program derives from them is a rational with denominator *)
(* Den(samples) = 2*|samples-1|, so the model keeps the exact numerator of *)
(* each coordinate over that denominator (floating-point rounding is not   *)
(* modelled).                                                              *)
(*                                                                         *)
(* Coordinate systems.  The model takes source rasters whose CRS is the    *)
(* destination CRS (the local AEQD plane), so that the CRS-to-CRS part of  *)
(* reproject is the identity on coordinates; the affine parts are kept.    *)
(***************************************************************************)
EXTENDS Integers, Sequences, FiniteSets, TLC

\* ---------------------------------------------------------------- bounds
\* Largest grid side length tried (the smallest is -1).
MaxSamples == 3
\* Number of times the script is run, one after the other, on the same
\* configuration, raster and filesystem.
MaxRuns == 2

\* ------------------------------------------------------ program constants
\* line 32: nodata_out = -32768
nodata_out == -32768

\* Python's None for a nullable integer, and an integer that is present.
None == <<>>
Some(v) == <<v>>

\* ------------------------------------------------------------ input sets
\* cfg["grid"]["samples"]: negative, zero and one are all tried.
SamplesSet == (0 - 1) .. MaxSamples
\* cfg["grid"]["size_m"] (positive spans only).
SizeSet == {100, 200}
\* cfg["center_offset"] as <<east_m, north_m>>.
CenterSet == {<<0, 0>>, <<400, 0 - 400>>}

\* Directories of the model filesystem: "bin" is out_bin.parent, "anc" is the
\* parent of "bin", "other" is a directory that is neither.
AllDirs == {"anc", "bin", "other"}
\* out_meta.parent is one of them, as the configuration chooses.
MetaDirSet == AllDirs

\* The source raster: SrcShape.side x SrcShape.side pixels of SrcShape.px
\* metres, pixel (row 0, col 0) having its top-left corner at
\* (SrcShape.x0, SrcShape.y0); this is src.transform =
\* Affine(px, 0, x0, 0, -px, y0).
SrcShape == [side |-> 2, px |-> 100, x0 |-> 0 - 100, y0 |-> 100]
SrcCells == (0 .. SrcShape.side - 1) \X (0 .. SrcShape.side - 1)
\* Values a source pixel holds, and the values src.nodata can take.
SrcValues == {0 - 9999, 100, 500}
SrcNodataSet == {None, Some(0 - 9999)}

\* A file: absent, or present with its content (a sequence).
NoFile == [exists |-> FALSE, data |-> <<>>]
\* Content left in out_bin by something other than this program.
StaleBin == [exists |-> TRUE, data |-> <<1, 2, 3>>]
StaleMeta == [exists |-> TRUE, data |-> <<[min |-> Some(7), max |-> Some(7)]>>]

VARIABLES
  cfg,          \* the parsed terrain_request.json (lines 19-36)
  src,          \* the source raster at raster_path: [data, nodata]
  pc,           \* position of main()
  err,          \* the exception that ended the run, "none" if none
  dst_transform,\* line 60, as numerators over Den(samples)
  dst,          \* the destination array (line 62)
  opened,       \* rasterio.open(raster_path) has returned a dataset
  filled,       \* reproject() has returned
  pts,          \* the local coordinate reproject() sampled each cell at
  dirs,         \* directories that exist
  binFile,      \* the file at out_bin
  metaFile,     \* the file at out_meta
  binWritten,   \* this run's out_bin.write_bytes returned
  metaWritten,  \* this run's out_meta.write_text returned
  fs0,          \* the filesystem when this run started
  run,          \* which run of the script this is
  prevOut       \* the outputs of the previous completed run, if any

vars == <<cfg, src, pc, err, dst_transform, dst, opened, filled, pts, dirs,
          binFile, metaFile, binWritten, metaWritten, fs0, run, prevOut>>

\* ------------------------------------------------------------- arithmetic
Abs(n) == IF n < 0 THEN 0 - n ELSE n

\* Common denominator of the coordinates of a run with this sample count.
Den(samples) == 2 * Abs(samples - 1)

\* line 49: pixel = size_m / (samples - 1), as a numerator over Den(samples).
\* Only defined for samples # 1.
pixel(size_m, samples) ==
  IF samples - 1 > 0 THEN 2 * size_m ELSE 0 - (2 * size_m)

\* line 51: half = size_m / 2.0, as a numerator over Den(samples).
half(size_m, samples) == size_m * Abs(samples - 1)

\* lines 57, 58, 60: Affine(pixel, 0, x0, 0, -pixel, y0).
Affine(c) ==
  [a |-> pixel(c.size_m, c.samples),
   c |-> c.center_e * Den(c.samples) - half(c.size_m, c.samples),
   e |-> 0 - pixel(c.size_m, c.samples),
   f |-> c.center_n * Den(c.samples) + half(c.size_m, c.samples)]

NoTransform == [a |-> 0, c |-> 0, e |-> 0, f |-> 0]

\* The transform applied to the pixel coordinate (col2/2, row2/2): an Affine
\* maps pixel coordinates to x = c + a*col, y = f + e*row.  t.a and t.e are
\* even, so the halves are exact.
AffineMul(t, col2, row2) ==
  <<t.c + (t.a * col2) \div 2, t.f + (t.e * row2) \div 2>>

Cells(n) == (0 .. n - 1) \X (0 .. n - 1)

\* line 62: np.full((samples, samples), nodata_out, dtype=np.int16)
full(samples) == [cell \in Cells(samples) |-> nodata_out]
NoArray == [cell \in {} |-> nodata_out]

\* ------------------------------------------------------------- resampling
\* numpy's cast of an integer to int16 (wraps modulo 2^16).
int16(v) == ((v + 32768) % 65536) - 32768

\* reproject() warps with GDAL, which reads an affine transform as the map
\* from pixel CORNER coordinates and evaluates each destination pixel at its
\* centre (col + 0.5, row + 0.5).  With dst_transform t this is the local
\* coordinate at which destination cell (r, c) is sampled (lines 66-76).
SamplePoint(t, r, c) == AffineMul(t, 2 * c + 1, 2 * r + 1)

\* The source pixel <<row, col>> holding local point p (numerators over
\* den): the inverse of src.transform, floored (Resampling.nearest takes the
\* one pixel the point falls in).
SrcIndex(p, den) ==
  <<(SrcShape.y0 * den - p[2]) \div (SrcShape.px * den),
    (p[1] - SrcShape.x0 * den) \div (SrcShape.px * den)>>

\* One destination value (lines 66-76): dst_nodata outside the source's
\* pixel bounds or where the source holds src_nodata, else the source value.
\* Mutant: indexes clamped to the raster's edge instead of rejected.
Sample_clamp(s, p, den) ==
  LET ij == SrcIndex(p, den)
      cl(k) == IF k < 0 THEN 0
               ELSE IF k > SrcShape.side - 1 THEN SrcShape.side - 1 ELSE k
      v == s.data[<<cl(ij[1]), cl(ij[2])>>]
  IN  IF s.nodata = Some(v) THEN nodata_out ELSE int16(v)

\* Mutant: src_nodata is not passed on, so nothing is masked.
Sample_nomask(s, p, den) ==
  LET ij == SrcIndex(p, den)
  IN  IF ij \notin SrcCells THEN nodata_out ELSE int16(s.data[ij])

Sample(s, p, den) ==
  LET ij == SrcIndex(p, den)
  IN  IF ij \notin SrcCells THEN nodata_out
      ELSE IF s.nodata = Some(s.data[ij]) THEN nodata_out
      ELSE int16(s.data[ij])

\* reproject(...) run to completion on an n x n destination.
reproject(s, t, n) ==
  [cell \in Cells(n) |-> Sample(s, SamplePoint(t, cell[1], cell[2]), Den(n))]

\* The points reproject() evaluated, cell by cell.
sampled(t, n) == [cell \in Cells(n) |-> SamplePoint(t, cell[1], cell[2])]

\* ---------------------------------------------------------------- encoding
\* Mutant: big-endian, column-major.
tobytes_be(a, n) ==
  [k \in 1 .. 2 * n * n |->
     LET idx == (k - 1) \div 2
         u == a[<<idx \div n, idx % n>>] % 65536
     IN  IF (k - 1) % 2 = 0 THEN u \div 256 ELSE u % 256]

\* line 79: dst.astype("<i2").tobytes(order="C"): two bytes per cell, low
\* byte first, rows one after the other.
tobytes(a, n) ==
  [k \in 1 .. 2 * n * n |->
     LET idx == (k - 1) \div 2
         u == a[<<idx \div n, idx % n>>] % 65536
     IN  IF (k - 1) % 2 = 0 THEN u % 256 ELSE u \div 256]

\* The cells of an n x n array in C order.
flat(a, n) == [k \in 1 .. n * n |-> a[<<(k - 1) \div n, (k - 1) % n>>]]

\* Mutant: no mask, every cell counts as valid.
valid_all(a, n) == flat(a, n)

\* line 81: valid = dst[dst != nodata_out]
valid(a, n) ==
  LET keep(v) == v # nodata_out IN SelectSeq(flat(a, n), keep)

\* ndarray.min() / ndarray.max() of a non-empty 1-d array.
RECURSIVE amin(_)
amin(s) ==
  IF Len(s) = 1 THEN s[1]
  ELSE LET m == amin(Tail(s)) IN IF s[1] < m THEN s[1] ELSE m

RECURSIVE amax(_)
amax(s) ==
  IF Len(s) = 1 THEN s[1]
  ELSE LET m == amax(Tail(s)) IN IF s[1] > m THEN s[1] ELSE m

\* lines 82-91: the metadata record.
meta(c, a) ==
  LET v == valid(a, c.samples)
  IN  [origin |-> c.origin,
       grid |-> [size_m |-> c.size_m, samples |-> c.samples],
       center_offset |-> [east_m |-> c.center_e, north_m |-> c.center_n],
       format |-> [dtype |-> "int16", endian |-> "little",
                   layout |-> "row-major"],
       nodata_out |-> nodata_out,
       min |-> IF Len(v) > 0 THEN Some(amin(v)) ELSE None,
       max |-> IF Len(v) > 0 THEN Some(amax(v)) ELSE None,
       out_bin |-> "out_bin"]

\* Mutant: the file is opened for appending.
write_append(f, data) == [exists |-> TRUE, data |-> f.data \o data]

\* Path.write_bytes / Path.write_text: the file is created or truncated and
\* then holds exactly the data.
write(f, data) == [exists |-> TRUE, data |-> data]

\* ------------------------------------------------------------ the program
\* The filesystem as one value.
Fs == [dirs |-> dirs, bin |-> binFile, meta |-> metaFile]

\* The states the filesystem can be in before the first run: nothing exists,
\* or every directory exists with files already at the output paths.
FsInit ==
  {[dirs |-> {}, bin |-> NoFile, meta |-> NoFile],
   [dirs |-> AllDirs, bin |-> StaleBin, meta |-> StaleMeta]}

\* lines 19-36: the configuration is read and the paths are resolved; no
\* file or directory has been touched yet.
Init ==
  /\ \E n \in SamplesSet, z \in SizeSet, ctr \in CenterSet, md \in MetaDirSet :
       cfg = [origin |-> [lat |-> 0, lon |-> 0],
              size_m |-> z, samples |-> n,
              center_e |-> ctr[1], center_n |-> ctr[2],
              out_meta_dir |-> md]
  /\ \E d \in [SrcCells -> SrcValues], nd \in SrcNodataSet :
       src = [data |-> d, nodata |-> nd]
  /\ \E f \in FsInit :
       /\ dirs = f.dirs /\ binFile = f.bin /\ metaFile = f.meta
       /\ fs0 = f
  /\ pc = "mkdir"
  /\ err = "none"
  /\ dst_transform = NoTransform
  /\ dst = NoArray
  /\ pts = NoArray
  /\ opened = FALSE
  /\ filled = FALSE
  /\ binWritten = FALSE
  /\ metaWritten = FALSE
  /\ run = 1
  /\ prevOut = <<>>

\* What a run never changes.
Inputs == <<cfg, src, run, prevOut, fs0>>

\* An exception leaves main(): the process ends with a traceback.
Raise(e) == pc' = "failed" /\ err' = e

\* Mutant: the directory of the metadata file is made as well.
Mkdir_both ==
  /\ pc = "mkdir"
  /\ dirs' = dirs \cup {"anc", "bin", cfg.out_meta_dir}
  /\ pc' = "grid"
  /\ UNCHANGED <<Inputs, err, dst_transform, dst, pts, opened, filled,
                 binFile, metaFile, binWritten, metaWritten>>

\* line 38: out_bin.parent.mkdir(parents=True, exist_ok=True)
Mkdir ==
  /\ pc = "mkdir"
  /\ dirs' = dirs \cup {"anc", "bin"}
  /\ pc' = "grid"
  /\ UNCHANGED <<Inputs, err, dst_transform, dst, pts, opened, filled,
                 binFile, metaFile, binWritten, metaWritten>>

\* lines 49-60: the pixel spacing and the destination transform.  With
\* samples = 1 the division of line 49 raises ZeroDivisionError.
BuildGrid ==
  /\ pc = "grid"
  /\ IF cfg.samples - 1 = 0
       THEN /\ Raise("ZeroDivisionError")
            /\ UNCHANGED dst_transform
       ELSE /\ dst_transform' = Affine(cfg)
            /\ pc' = "alloc"
            /\ UNCHANGED err
  /\ UNCHANGED <<Inputs, dst, pts, opened, filled, dirs, binFile, metaFile,
                 binWritten, metaWritten>>

\* line 62: np.full raises ValueError on a negative dimension.
AllocDst ==
  /\ pc = "alloc"
  /\ IF cfg.samples < 0
       THEN /\ Raise("ValueError")
            /\ UNCHANGED dst
       ELSE /\ dst' = full(cfg.samples)
            /\ pc' = "open"
            /\ UNCHANGED err
  /\ UNCHANGED <<Inputs, dst_transform, pts, opened, filled, dirs, binFile,
                 metaFile, binWritten, metaWritten>>

\* line 64: rasterio.open(raster_path) returns the dataset.
OpenRaster ==
  /\ pc = "open"
  /\ opened' = TRUE
  /\ pc' = "reproject"
  /\ UNCHANGED <<Inputs, err, dst_transform, dst, pts, filled, dirs, binFile,
                 metaFile, binWritten, metaWritten>>

\* line 64: the raster cannot be opened (missing, unreadable, not a raster).
OpenRasterFails ==
  /\ pc = "open"
  /\ Raise("RasterioIOError")
  /\ UNCHANGED <<Inputs, dst_transform, dst, pts, opened, filled, dirs,
                 binFile, metaFile, binWritten, metaWritten>>

\* lines 66-76: reproject() fills dst.  GDAL refuses a destination without
\* pixels, so an empty dst (samples = 0) never gets here.
Reproject ==
  /\ pc = "reproject"
  /\ cfg.samples > 0
  /\ dst' = reproject(src, dst_transform, cfg.samples)
  /\ pts' = sampled(dst_transform, cfg.samples)
  /\ filled' = TRUE
  /\ pc' = "writebin"
  /\ UNCHANGED <<Inputs, err, dst_transform, opened, dirs, binFile, metaFile,
                 binWritten, metaWritten>>

\* Mutant: the failure is caught and logged, and main() goes on to write.
ReprojectFails_swallowed ==
  /\ pc = "reproject"
  /\ \E k \in 0 .. cfg.samples :
       dst' = [cell \in Cells(cfg.samples) |->
                 IF cell[1] < k
                   THEN reproject(src, dst_transform, cfg.samples)[cell]
                   ELSE dst[cell]]
  /\ err' = "WarpError"
  /\ pc' = "writebin"
  /\ UNCHANGED <<Inputs, dst_transform, pts, opened, filled, dirs, binFile,
                 metaFile, binWritten, metaWritten>>

\* lines 66-76: reproject() raises: the raster cannot be read, or GDAL
\* rejects the request (an empty destination always is).  The rows warped
\* before the failure stay in dst.
ReprojectFails ==
  /\ pc = "reproject"
  /\ \E k \in 0 .. cfg.samples :
       dst' = [cell \in Cells(cfg.samples) |->
                 IF cell[1] < k
                   THEN reproject(src, dst_transform, cfg.samples)[cell]
                   ELSE dst[cell]]
  /\ Raise("WarpError")
  /\ UNCHANGED <<Inputs, dst_transform, pts, opened, filled, dirs, binFile,
                 metaFile, binWritten, metaWritten>>

\* Mutant: the binary is not written before the metadata.
WriteBin_skipped ==
  /\ pc = "writebin"
  /\ pc' = "writemeta"
  /\ UNCHANGED <<Inputs, err, dst_transform, dst, pts, opened, filled, dirs,
                 binFile, metaFile, binWritten, metaWritten>>

\* line 79: out_bin.write_bytes(...)
WriteBin ==
  /\ pc = "writebin"
  /\ binFile' = write(binFile, tobytes(dst, cfg.samples))
  /\ binWritten' = TRUE
  /\ pc' = "writemeta"
  /\ UNCHANGED <<Inputs, err, dst_transform, dst, pts, opened, filled, dirs,
                 metaFile, metaWritten>>

\* line 79: write_bytes raises OSError: the file could not be opened (it is
\* left as it was) or the write broke off (it is left truncated).
WriteBinFails ==
  /\ pc = "writebin"
  /\ binFile' \in {binFile, write(binFile, <<>>)}
  /\ Raise("OSError:out_bin")
  /\ UNCHANGED <<Inputs, dst_transform, dst, pts, opened, filled, dirs,
                 metaFile, binWritten, metaWritten>>

\* lines 81-92: the statistics, and out_meta.write_text(...).  Nothing makes
\* out_meta.parent, so the write needs it to exist already.
WriteMeta ==
  /\ pc = "writemeta"
  /\ cfg.out_meta_dir \in dirs
  /\ metaFile' = write(metaFile, <<meta(cfg, dst)>>)
  /\ metaWritten' = TRUE
  /\ pc' = "done"
  /\ UNCHANGED <<Inputs, err, dst_transform, dst, pts, opened, filled, dirs,
                 binFile, binWritten>>

\* line 92: write_text raises: out_meta.parent does not exist
\* (FileNotFoundError), the file could not be opened, or the write broke off.
WriteMetaFails ==
  /\ pc = "writemeta"
  /\ IF cfg.out_meta_dir \in dirs
       THEN metaFile' \in {metaFile, write(metaFile, <<>>)}
       ELSE metaFile' = metaFile
  /\ Raise("OSError:out_meta")
  /\ UNCHANGED <<Inputs, dst_transform, dst, pts, opened, filled, dirs,
                 binFile, binWritten, metaWritten>>

\* The script is started again on the same configuration and raster, in a
\* new process, on the filesystem the last run left (line 98-99).
Rerun ==
  /\ pc \in {"done", "failed"}
  /\ run < MaxRuns
  /\ run' = run + 1
  /\ prevOut' = IF pc = "done" THEN <<[bin |-> binFile, meta |-> metaFile]>>
                ELSE prevOut
  /\ fs0' = Fs
  /\ pc' = "mkdir"
  /\ err' = "none"
  /\ dst_transform' = NoTransform
  /\ dst' = NoArray
  /\ pts' = NoArray
  /\ opened' = FALSE
  /\ filled' = FALSE
  /\ binWritten' = FALSE
  /\ metaWritten' = FALSE
  /\ UNCHANGED <<cfg, src, dirs, binFile, metaFile>>

Next ==
  \/ Mkdir
  \/ BuildGrid
  \/ AllocDst
  \/ OpenRaster
  \/ OpenRasterFails
  \/ Reproject
  \/ ReprojectFails
  \/ WriteBin
  \/ WriteBinFails
  \/ WriteMeta
  \/ WriteMetaFails
  \/ Rerun

Spec == Init /\ [][Next]_vars

\* =================================================================== claims
\* Helpers of the claims (not part of the program).

\* The signed 16-bit integer two bytes spell, low byte first.
FromLE(lo, hi) ==
  LET u == lo + 256 * hi IN IF u >= 32768 THEN u - 65536 ELSE u

\* The run ended on one of the conditions the specification calls fatal: a
\* bad sample count, or a raster that cannot be opened or read.
Fatal == err \in {"ZeroDivisionError", "ValueError", "RasterioIOError", "WarpError"}

\* The run ended on a failed write of one of its two output files.
WriteError == err \in {"OSError:out_bin", "OSError:out_meta"}

\* The values of the destination cells other than the nodata sentinel.
ValidValues == {dst[cell] : cell \in DOMAIN dst} \ {nodata_out}

\* Local point p (numerators over d) lies in the footprint of source pixel
\* ij = <<row, col>>: west and north edges belong to the pixel.
InPixel(p, d, ij) ==
  /\ SrcShape.x0 * d + ij[2] * SrcShape.px * d <= p[1]
  /\ p[1] < SrcShape.x0 * d + (ij[2] + 1) * SrcShape.px * d
  /\ SrcShape.y0 * d - (ij[1] + 1) * SrcShape.px * d < p[2]
  /\ p[2] <= SrcShape.y0 * d - ij[1] * SrcShape.px * d

\* No sampled point of the destination grid lies in any source pixel.
AllOutside ==
  \A cell \in DOMAIN pts : \A ij \in SrcCells :
    ~InPixel(pts[cell], Den(cfg.samples), ij)

\* C1: every run with samples < 2 fails with the dedicated InvalidGridSpec
\* condition (not a division by zero, not a normal completion), and it fails
\* before the source raster is opened and before any cell is sampled.
C1_InvalidGridSpec ==
  cfg.samples < 2 =>
    /\ ~opened
    /\ ~filled
    /\ pc # "done"
    /\ (pc = "failed" => err = "InvalidGridSpec")

\* C2: a run that hits a fatal condition (samples < 2, or a raster that
\* cannot be opened or read) writes neither the binary nor the metadata file:
\* both paths hold what they held when the run started.
C2_NoOutputOnFatal ==
  (Fatal \/ cfg.samples < 2) =>
    /\ ~binWritten
    /\ ~metaWritten
    /\ binFile = fs0.bin
    /\ metaFile = fs0.meta

\* C2 witness: reproject failed after warping at least one valid cell into
\* the grid, and no output file exists.
C2_Witness ==
  /\ pc = "failed"
  /\ err = "WarpError"
  /\ cfg.samples >= 2
  /\ ValidValues # {}
  /\ binFile = NoFile
  /\ metaFile = NoFile

\* C3: a completed run with samples >= 2 has a grid of exactly samples x
\* samples cells and a binary of exactly samples*samples*2 bytes, no header:
\* cell (r, c) is the little-endian signed 16-bit integer at bytes
\* 2*(r*samples + c) and 2*(r*samples + c) + 1 (counted from 0).
C3_BinaryLayout ==
  (pc = "done" /\ cfg.samples >= 2) =>
    LET n == cfg.samples IN
    /\ DOMAIN dst = Cells(n)
    /\ Cardinality(DOMAIN dst) = n * n
    /\ binFile.exists
    /\ Len(binFile.data) = n * n * 2
    /\ \A k \in 1 .. Len(binFile.data) : binFile.data[k] \in 0 .. 255
    /\ \A r \in 0 .. n - 1, c \in 0 .. n - 1 :
         LET off == 2 * (r * n + c)
         IN  FromLE(binFile.data[off + 1], binFile.data[off + 2]) = dst[<<r, c>>]

\* C3 witness: a completed 3 x 3 run whose grid holds two different
\* elevations and a nodata cell.
C3_Witness ==
  /\ pc = "done"
  /\ cfg.samples = 3
  /\ Cardinality(ValidValues) >= 2
  /\ \E cell \in DOMAIN dst : dst[cell] = nodata_out

\* C4: the metadata min and max are the least and the greatest of the cells
\* that differ from -32768, and both are null exactly when every cell is
\* -32768; a grid without a valid cell raises no error of its own.
C4_MinMax ==
  /\ metaWritten =>
       LET m == metaFile.data[1] IN
       /\ (m.min = None) <=> (ValidValues = {})
       /\ (m.max = None) <=> (ValidValues = {})
       /\ ValidValues # {} =>
            \E lo \in ValidValues, hi \in ValidValues :
              /\ m.min = Some(lo)
              /\ m.max = Some(hi)
              /\ \A v \in ValidValues : lo <= v /\ v <= hi
  /\ (filled /\ ValidValues = {} /\ pc = "failed") => WriteError

\* C4 witness: a completed run whose grid has nodata cells and valid cells
\* with min < max.
C4_Witness ==
  /\ pc = "done"
  /\ \E cell \in DOMAIN dst : dst[cell] = nodata_out
  /\ metaFile.data[1].min # None
  /\ metaFile.data[1].min # metaFile.data[1].max

\* C5: with samples >= 2, destination cell (r, c) is sampled at the local
\* coordinate (x0 + c*pixel_spacing, y0 - r*pixel_spacing), where
\* x0 = center_e - size_m/2, y0 = center_n + size_m/2 and
\* pixel_spacing = size_m/(samples-1).  (Both sides multiplied by
\* 2*(samples-1).)
C5_SamplingPoints ==
  (filled /\ cfg.samples >= 2) =>
    LET n == cfg.samples
        d == 2 * (n - 1)
    IN  \A r \in 0 .. n - 1, c \in 0 .. n - 1 :
          /\ pts[<<r, c>>][1] =
               cfg.center_e * d - cfg.size_m * (n - 1) + c * 2 * cfg.size_m
          /\ pts[<<r, c>>][2] =
               cfg.center_n * d + cfg.size_m * (n - 1) - r * 2 * cfg.size_m

\* C6: every destination cell holds -32768 when the source pixel its sampled
\* point falls in is outside the raster or holds the source's nodata value,
\* and otherwise the value of that one source pixel; such cells are no error.
C6_NearestOrNodata ==
  /\ filled =>
       \A cell \in Cells(cfg.samples) :
         LET hits == {ij \in SrcCells : InPixel(pts[cell], Den(cfg.samples), ij)}
         IN  /\ Cardinality(hits) <= 1
             /\ hits = {} => dst[cell] = nodata_out
             /\ \A ij \in hits :
                  dst[cell] = IF src.nodata = Some(src.data[ij])
                                THEN nodata_out
                                ELSE src.data[ij]
  /\ (filled /\ pc = "failed") => WriteError

\* C6 witness: a completed run with a cell outside the raster, a cell on a
\* source nodata pixel and a cell holding a source value.
C6_Witness ==
  /\ pc = "done"
  /\ \E cell \in DOMAIN pts : \A ij \in SrcCells :
       ~InPixel(pts[cell], Den(cfg.samples), ij)
  /\ \E cell \in DOMAIN pts : \E ij \in SrcCells :
       /\ InPixel(pts[cell], Den(cfg.samples), ij)
       /\ src.nodata = Some(src.data[ij])
  /\ \E cell \in DOMAIN pts : \E ij \in SrcCells :
       /\ InPixel(pts[cell], Den(cfg.samples), ij)
       /\ src.nodata # Some(src.data[ij])
       /\ dst[cell] = src.data[ij]

\* C7: when every destination cell is sampled outside the source raster's
\* coverage, the run completes normally, every cell written is -32768, both
\* files are written and the metadata min and max are null.
C7_AllNodata ==
  (filled /\ AllOutside) =>
    /\ \A cell \in DOMAIN dst : dst[cell] = nodata_out
    /\ binWritten =>
         /\ binFile.exists
         /\ \A k \in 1 .. cfg.samples * cfg.samples :
              FromLE(binFile.data[2 * k - 1], binFile.data[2 * k]) = nodata_out
    /\ metaWritten =>
         /\ metaFile.exists
         /\ metaFile.data[1].min = None
         /\ metaFile.data[1].max = None
    /\ pc = "done" => binWritten /\ metaWritten
    /\ pc = "failed" => WriteError

\* C7 witness: a completed run, samples >= 2, whose grid lies wholly outside
\* the raster.
C7_Witness ==
  /\ pc = "done"
  /\ cfg.samples >= 2
  /\ AllOutside
  /\ metaFile.data[1].min = None

\* C8: a run that completes after an earlier completed run on the same
\* configuration and raster leaves the same binary file and the same
\* metadata record as that run did, whatever the paths held before.
C8_Deterministic ==
  (pc = "done" /\ prevOut # <<>>) =>
    /\ binFile = prevOut[1].bin
    /\ metaFile = prevOut[1].meta

\* C8 witness: a second run completed, after a completed first run, on a
\* grid that has valid cells and nodata cells.
C8_Witness ==
  /\ pc = "done"
  /\ run = 2
  /\ prevOut # <<>>
  /\ ValidValues # {}
  /\ \E cell \in DOMAIN dst : dst[cell] = nodata_out
  /\ fs0.bin = prevOut[1].bin

\* C9: the grid is filled before the binary is written, and the binary is
\* written before the metadata; where this run's metadata exists, so does
\* its binary, and min/max are those of the grid the binary holds; a failed
\* metadata write leaves the binary without its sidecar.
C9_Order ==
  /\ binWritten => filled
  /\ metaWritten => binWritten
  /\ metaWritten =>
       LET n == cfg.samples
           cellsOfBin == {FromLE(binFile.data[2 * k - 1], binFile.data[2 * k]) :
                            k \in 1 .. n * n} \ {nodata_out}
           m == metaFile.data[1]
       IN  /\ binFile.exists
           /\ Len(binFile.data) = 2 * n * n
           /\ \A k \in 1 .. n * n :
                FromLE(binFile.data[2 * k - 1], binFile.data[2 * k])
                  = dst[<<(k - 1) \div n, (k - 1) % n>>]
           /\ cellsOfBin = {} => m.min = None /\ m.max = None
           /\ cellsOfBin # {} =>
                /\ m.min # None /\ m.max # None
                /\ m.min[1] \in cellsOfBin /\ m.max[1] \in cellsOfBin
                /\ \A v \in cellsOfBin : m.min[1] <= v /\ v <= m.max[1]
  /\ err = "OSError:out_meta" => binWritten /\ ~metaWritten /\ binFile.exists

\* C9 witness: the metadata write failed on a first run in an empty
\* filesystem: the binary exists, the metadata file does not.
C9_Witness ==
  /\ pc = "failed"
  /\ err = "OSError:out_meta"
  /\ binWritten
  /\ binFile.exists
  /\ metaFile = NoFile

\* C10 (as stated): out_bin's parent exists from before the grid spec is
\* checked and the raster is opened; a run that aborts on a fatal condition
\* changes nothing but that directory (and its parents); the run never
\* creates the metadata file's parent directory.
C10_Original ==
  /\ pc # "mkdir" => "bin" \in dirs
  /\ Fatal =>
       /\ binFile = fs0.bin
       /\ metaFile = fs0.meta
       /\ dirs \ {"anc", "bin"} = fs0.dirs \ {"anc", "bin"}
  /\ cfg.out_meta_dir \notin dirs \ fs0.dirs

\* C10 (amended): as stated, except that the metadata file's parent
\* directory is created by the run exactly when it is out_bin's parent or an
\* ancestor of it; no directory is made for the metadata file itself.
C10_Amended ==
  /\ pc # "mkdir" => "bin" \in dirs
  /\ Fatal =>
       /\ binFile = fs0.bin
       /\ metaFile = fs0.meta
       /\ dirs \ {"anc", "bin"} = fs0.dirs \ {"anc", "bin"}
  /\ cfg.out_meta_dir \in dirs \ fs0.dirs => cfg.out_meta_dir \in {"anc", "bin"}
  /\ (pc = "writemeta" /\ cfg.out_meta_dir \notin fs0.dirs \cup {"anc", "bin"})
       => cfg.out_meta_dir \notin dirs

\* C10 witness: the raster could not be opened on a run that started in an
\* empty filesystem with the metadata file configured elsewhere: out_bin's
\* parent and its ancestor exist, nothing else does.
C10_Witness ==
  /\ pc = "failed"
  /\ err = "RasterioIOError"
  /\ fs0.dirs = {}
  /\ dirs = {"anc", "bin"}
  /\ cfg.out_meta_dir = "other"
  /\ binFile = NoFile
  /\ metaFile = NoFile

====
